---- MODULE Spec2Model ----
(***************************************************************************)
(* Model of scripts/ingest_designs.py: the DesignIngester that scans a     *)
(* directory, classifies every design file as exact duplicate, new version *)
(* or brand-new design, and writes designs, design_files, tags and         *)
(* design_tags records plus storage objects to the remote store.           *)
(*                                                                         *)
(* Text is a sequence of one-character strings, so that slugify, title()   *)
(* and the sort of the file list are computed character by character.      *)
(* Record ids are the position of the record in its table (0 = no record). *)
(* The local file system is taken to be reliable; every call to the remote *)
(* store (select, insert, update, upload) may raise.                       *)
(***************************************************************************)
EXTENDS Integers, Sequences, FiniteSets, TLC

(* ---------------------------------------------------------------- bounds *)

\* number of scans (runs of main) in one behaviour
MaxScans == 2
\* number of design files one scanned directory holds at most
MaxDirFiles == 2
\* number of calls of process_file in one behaviour
MaxCalls == 2
\* number of remote calls that fail in one behaviour
MaxFailures == 1
\* number of distinct file contents
NumContents == 2
\* the clock (whole seconds) reads a value in 1..MaxClock
MaxClock == 2

(* ------------------------------------------------------------------ text *)

Lowers == <<"a", "b", "c", "d", "e", "f", "g", "i", "o", "p", "r", "s", "v", "w", "x">>
Uppers == <<"A", "B", "C", "D", "E", "F", "G", "I", "O", "P", "R", "S", "V", "W", "X">>
Digits == <<"0", "1", "2", "3", "4", "5", "6", "7", "8", "9">>

\* the characters in code-point order, for the comparison of paths
CharOrder == <<" ", "!", "-", ".">> \o Digits \o Uppers \o <<"_">> \o Lowers

InSeq(c, s) == \E i \in 1..Len(s) : s[i] = c
IndexOf(c, s) == CHOOSE i \in 1..Len(s) : s[i] = c

IsLower(c) == InSeq(c, Lowers)
IsUpper(c) == InSeq(c, Uppers)
IsCased(c) == IsLower(c) \/ IsUpper(c)
LowerChar(c) == IF IsUpper(c) THEN Lowers[IndexOf(c, Uppers)] ELSE c
UpperChar(c) == IF IsLower(c) THEN Uppers[IndexOf(c, Lowers)] ELSE c

\* regular-expression classes \w and \s
IsWord(c) == IsCased(c) \/ InSeq(c, Digits) \/ c = "_"
IsSpace(c) == c = " "

\* str.lower()
StrLower(s) == [i \in 1..Len(s) |-> LowerChar(s[i])]

\* str.upper()
StrUpper(s) == [i \in 1..Len(s) |-> UpperChar(s[i])]

\* str.replace(a, b) for one-character a and b
StrReplace(s, a, b) == [i \in 1..Len(s) |-> IF s[i] = a THEN b ELSE s[i]]

\* str.title(): a cased character is upper-cased after an uncased one (or at
\* the start) and lower-cased after a cased one
StrTitle(s) ==
    [i \in 1..Len(s) |->
        IF i > 1 /\ IsCased(s[i - 1]) THEN LowerChar(s[i]) ELSE UpperChar(s[i])]

\* str.lstrip(c), str.rstrip(c) and str.strip(c) for one character c
LStripChar(s, c) ==
    IF \A i \in 1..Len(s) : s[i] = c THEN <<>>
    ELSE SubSeq(s, CHOOSE k \in 1..Len(s) :
                       s[k] # c /\ \A j \in 1..(k - 1) : s[j] = c,
                Len(s))

RStripChar(s, c) ==
    IF \A i \in 1..Len(s) : s[i] = c THEN <<>>
    ELSE SubSeq(s, 1, CHOOSE k \in 1..Len(s) :
                          s[k] # c /\ \A j \in (k + 1)..Len(s) : s[j] = c)

StripChar(s, c) == RStripChar(LStripChar(s, c), c)

\* re.sub(r"[^\w\s-]", "", s)
KeptBySlug(c) == IsWord(c) \/ IsSpace(c) \/ c = "-"
DropSpecial(s) == SelectSeq(s, KeptBySlug)

\* re.sub(r"[\s_-]+", "-", s): a run of separators leaves one hyphen, at the
\* place of its last character
IsSep(c) == IsSpace(c) \/ c = "_" \/ c = "-"
NotErased(c) == c # ""
CollapseSeps(s) ==
    SelectSeq([i \in 1..Len(s) |->
                  IF ~IsSep(s[i]) THEN s[i]
                  ELSE IF i < Len(s) /\ IsSep(s[i + 1]) THEN "" ELSE "-"],
              NotErased)

\* DesignIngester.slugify
slugify(text) ==
    CHOOSE slug \in
        { StripChar(collapsed, "-") :
            collapsed \in { CollapseSeps(kept) :
                kept \in { DropSpecial(lowered) :
                    lowered \in { StrLower(text) } } } } : TRUE

\* str(int(n)) for n >= 0
RECURSIVE IntToStr(_)
IntToStr(n) ==
    IF n < 10 THEN <<Digits[n + 1]>>
    ELSE IntToStr(n \div 10) \o <<Digits[(n % 10) + 1]>>

\* comparison of two texts by code points (the order of sorted())
RECURSIVE StrLess(_, _)
StrLess(a, b) ==
    IF b = <<>> THEN FALSE
    ELSE IF a = <<>> THEN TRUE
    ELSE IF Head(a) = Head(b) THEN StrLess(Tail(a), Tail(b))
    ELSE IndexOf(Head(a), CharOrder) < IndexOf(Head(b), CharOrder)

(* ----------------------------------------------------- files and inputs *)

Stem == <<"b", "o", "x">>

\* SUPPORTED_EXTENSIONS met in the scanned directories
Suffixes == {<<".", "p", "d", "f">>, <<".", "s", "v", "g">>}

\* a design file of a scanned directory: Path.stem and Path.suffix
AllPaths == [stem : {Stem}, suffix : Suffixes]

\* str(file_path.relative_to(base_dir)) and file_path.name
PathStr(p) == p.stem \o p.suffix

\* the bytes a file can hold
Contents == 1..NumContents

\* a scanned directory: the design files it holds with their bytes, and whether
\* a preview image (box.png, box_preview.png, ...) lies next to them
Directories ==
    { d \in [files : UNION { [S -> Contents] : S \in SUBSET AllPaths },
             sibling : BOOLEAN] :
        Cardinality(DOMAIN d.files) <= MaxDirFiles }

\* sorted(unique_files)
RECURSIVE SortPaths(_)
SortPaths(S) ==
    IF S = {} THEN <<>>
    ELSE LET m == CHOOSE p \in S :
                    \A q \in S \ {p} : StrLess(PathStr(p), PathStr(q))
         IN  <<m>> \o SortPaths(S \ {m})

SUPPORTED_EXTENSIONS ==
    { <<".", "s", "v", "g">>, <<".", "d", "x", "f">>, <<".", "a", "i">>,
      <<".", "e", "p", "s">>, <<".", "p", "d", "f">>, <<".", "c", "d", "r">> }

\* ext.upper() of the supported extensions
UPPER_EXTENSIONS == { StrUpper(ext) : ext \in SUPPORTED_EXTENSIONS }

\* the files directory.rglob(f"*{ext}") finds for the extensions exts; the
\* match is case-sensitive, as on a POSIX platform
Rglob(paths, exts) == { p \in paths : p.suffix \in exts }

\* what the lower-case and the upper-case patterns of scan_directory find
LowerMatches(paths) == Rglob(paths, SUPPORTED_EXTENSIONS)
UpperMatches(paths) == Rglob(paths, UPPER_EXTENSIONS)

\* key = str(f).lower()
PathKey(p) == StrLower(PathStr(p))

\* the sets unique_files can hold: of the found files of one key the first
\* seen is kept. Files of one key have one extension, whose lower-case
\* pattern is searched before its upper-case one; the order within one
\* pattern is the file system's
UniqueFiles(paths) ==
    LET lower == LowerMatches(paths)
        found == lower \cup UpperMatches(paths)
        Keys(S) == { PathKey(p) : p \in S }
        seen == Keys(found)
        lower_seen == Keys(lower)
    IN  { U \in SUBSET found :
            /\ Keys(U) = seen
            /\ Cardinality(U) = Cardinality(seen)
            /\ \A q \in U \ lower : PathKey(q) \notin lower_seen }

\* design files whose names differ in letter case, and the directories that
\* hold them
CaseSuffixes ==
    { <<".", "s", "v", "g">>, <<".", "S", "V", "G">>, <<".", "S", "v", "g">> }

CasePaths == [stem : {Stem, StrTitle(Stem)}, suffix : CaseSuffixes]

CaseDirectories ==
    { d \in [files : UNION { [S -> Contents] : S \in SUBSET CasePaths },
             sibling : {FALSE}] :
        Cardinality(DOMAIN d.files) <= MaxDirFiles }

\* UniqueFiles for every set of files a scanned directory holds, computed once
UniqueFilesOf ==
    [paths \in SUBSET (AllPaths \cup CasePaths) |-> UniqueFiles(paths)] @@ <<>>

\* hashlib.sha256(...).hexdigest(): one digest per byte content
compute_content_hash(bytes) == IntToStr(bytes)

\* content_hash[:8]
HashPrefix(h) == SubSeq(h, 1, IF Len(h) < 8 THEN Len(h) ELSE 8)

\* the AIMetadata fields the pipeline reads; title_none / tags_none stand for
\* the Python value None
Metadata(title_none, title, tags_none, tags) ==
    [title_none |-> title_none, title |-> title,
     tags_none |-> tags_none, tags |-> tags]

NoMetadata == Metadata(TRUE, <<>>, TRUE, <<>>)

\* DesignIngester._generate_basic_metadata
_generate_basic_metadata(filename_stem) ==
    Metadata(FALSE,
             StrTitle(StrReplace(StrReplace(filename_stem, "-", " "), "_", " ")),
             FALSE, <<>>)

\* what the AI backend can answer to one request
AITitle == <<"B", "o", "x", "!">>
AITags == << <<"W", "o", "o", "d">>, <<"w", "o", "o", "d", " ">> >>

AIResponses ==
    { [kind |-> "request_error", title |-> "missing", tags |-> "missing"],
      [kind |-> "not_json",      title |-> "missing", tags |-> "missing"],
      [kind |-> "not_object",    title |-> "missing", tags |-> "missing"],
      [kind |-> "object",        title |-> "string",  tags |-> "list"],
      [kind |-> "object",        title |-> "missing", tags |-> "missing"],
      [kind |-> "object",        title |-> "null",    tags |-> "missing"],
      [kind |-> "object",        title |-> "string",  tags |-> "null"] }

\* DesignIngester.get_ai_metadata once the request was issued: the answer r
\* for the file p
ParseAIResponse(r, p) ==
    IF r.kind # "object"
    THEN _generate_basic_metadata(p.stem)
    ELSE Metadata(r.title = "null",
                  CASE r.title = "string"  -> AITitle
                    [] r.title = "missing" -> PathStr(p)
                    [] OTHER               -> <<>>,
                  r.tags = "null",
                  IF r.tags = "list" THEN AITags ELSE <<>>)

(* ----------------------------------------------------------------- state *)

VARIABLES
    designs,        \* remote table designs: sequence of records, id = position
    design_files,   \* remote table design_files: sequence of records, id = position
    tags,           \* remote table tags: sequence of names, id = position
    design_tags,    \* remote join table: set of <<design_id, tag_id>>
    storage,        \* object storage: set of [bucket, key, data]
    stats,          \* DesignIngester.stats
    openai,         \* whether self.openai is configured
    dir,            \* the directory being scanned
    phase,          \* position of main: "init", "scanning", "summary"
    scans,          \* number of runs of main started so far
    calls,          \* number of files handed to process_file by the scans so far
    failures,       \* number of remote calls that failed so far
    file_list,      \* scan_directory's sorted list design_files
    idx,            \* position of scan_directory's loop in file_list
    pc,             \* position of process_file ("idle": no call in progress)
    loc,            \* local variables of process_file
    oplog,          \* what the current (or last) call of process_file did, in order
    pre,            \* the store and the counters when that call began
    outcome         \* how that call ended

store == <<designs, design_files, tags, design_tags, storage>>
scanv == <<openai, dir, phase, scans, calls, file_list>>
vars == <<designs, design_files, tags, design_tags, storage, stats, openai, dir,
          phase, scans, calls, failures, file_list, idx, pc, loc, oplog, pre,
          outcome>>

ZeroStats ==
    [scanned |-> 0, skipped_duplicate |-> 0, new_designs |-> 0,
     new_versions |-> 0, errors |-> 0, previews_generated |-> 0]

NoPath == [stem |-> <<>>, suffix |-> <<>>]

NoLoc ==
    [file_path |-> NoPath, relative_path |-> <<>>, content_hash |-> <<>>,
     existing |-> 0, preview |-> "none", temp_preview |-> FALSE,
     temp_exists |-> FALSE, phash |-> 0, metadata |-> NoMetadata,
     preview_storage_path |-> <<>>, slug |-> <<>>, design_id |-> 0,
     version_number |-> 0, storage_path |-> <<>>, file_id |-> 0, tag_i |-> 0]

NoOutcome == [ended |-> "none", remote_failure |-> FALSE]

Snapshot ==
    [designs |-> designs, design_files |-> design_files, tags |-> tags,
     design_tags |-> design_tags, storage |-> storage, stats |-> stats]

Init ==
    /\ designs = <<>>
    /\ design_files = <<>>
    /\ tags = <<>>
    /\ design_tags = {}
    /\ storage = {}
    /\ stats = ZeroStats
    /\ openai = FALSE
    /\ dir = [files |-> <<>>, sibling |-> FALSE]
    /\ phase = "init"
    /\ scans = 0
    /\ calls = 0
    /\ failures = 0
    /\ file_list = <<>>
    /\ idx = 1
    /\ pc = "idle"
    /\ loc = NoLoc
    /\ oplog = <<>>
    /\ pre = Snapshot
    /\ outcome = NoOutcome

(* --------------------------------------------------------- remote queries *)

FileIds == 1..Len(design_files)
DesignIds == 1..Len(designs)

\* faulty variant of check_duplicate: the query never finds a record
check_duplicate_blind(content_hash) == 0

\* faulty variant of check_duplicate: the query also filters on the source
\* path of the file at hand
check_duplicate_by_path(content_hash) ==
    LET hits == { i \in FileIds :
                    /\ design_files[i].content_hash = content_hash
                    /\ design_files[i].source_path = PathStr(file_list[idx]) }
    IN  IF hits = {} THEN 0 ELSE CHOOSE i \in hits : TRUE

\* DesignIngester.check_duplicate: a record with this content hash, or 0
check_duplicate(content_hash) ==
    LET hits == { i \in FileIds : design_files[i].content_hash = content_hash }
    IN  IF hits = {} THEN 0 ELSE CHOOSE i \in hits : TRUE

\* faulty variant of find_by_source_path: the query never finds a record
find_by_source_path_blind(source_path) == 0

\* DesignIngester.find_by_source_path: the record of this source path with the
\* highest version number, or 0
find_by_source_path(source_path) ==
    LET hits == { i \in FileIds : design_files[i].source_path = source_path }
    IN  IF hits = {} THEN 0
        ELSE CHOOSE i \in hits :
                \A j \in hits :
                    design_files[j].version_number <= design_files[i].version_number

\* storage.from_(bucket).upload(key, data, {"upsert": "true"})
Upsert(bucket, key, data) ==
    { o \in storage : ~(o.bucket = bucket /\ o.key = key) }
        \cup { [bucket |-> bucket, key |-> key, data |-> data] }

\* faulty variant of the storage path: the version number is left out
FilesKey_flat(design_id, version_number, suffix) ==
    <<"f", "i", "l", "e", "s", "/">> \o IntToStr(design_id) \o suffix

\* f"files/{design_id}/v{version_number}{file_path.suffix}"
FilesKey(design_id, version_number, suffix) ==
    <<"f", "i", "l", "e", "s", "/">> \o IntToStr(design_id) \o <<"/", "v">>
        \o IntToStr(version_number) \o suffix

\* f"{self.slugify(metadata.title)}-{content_hash[:8]}.png"
PreviewKey(title, content_hash) ==
    slugify(title) \o <<"-">> \o HashPrefix(content_hash) \o <<".", "p", "n", "g">>

\* the bytes of a preview image
PreviewBytes == 0

(* ------------------------------------------------- main and scan_directory *)

\* main: a new DesignIngester scans directory d; scan_directory lists and
\* sorts its design files. max_scans caps the runs of main and max_calls the
\* files handed to process_file
StartScanUpTo(d, ai, max_scans, max_calls) ==
    /\ phase \in {"init", "summary"}
    /\ scans < max_scans
    /\ \E unique_files \in UniqueFilesOf[DOMAIN d.files] :
          /\ calls + Cardinality(unique_files) <= max_calls
          /\ calls' = calls + Cardinality(unique_files)
          /\ file_list' = SortPaths(unique_files)
    /\ scans' = scans + 1
    /\ dir' = d
    /\ openai' = ai
    /\ stats' = ZeroStats
    /\ idx' = 1
    /\ phase' = "scanning"
    /\ pc' = "idle"
    /\ loc' = NoLoc
    /\ oplog' = <<>>
    /\ pre' = [Snapshot EXCEPT !.stats = ZeroStats]
    /\ outcome' = NoOutcome
    /\ UNCHANGED <<store, failures>>

StartScan(d, ai) == StartScanUpTo(d, ai, MaxScans, MaxCalls)

\* faulty variant of the except clause: the exception is counted and ends
\* the loop
RaisedFrom_break(counters, remote) ==
    /\ remote => failures < MaxFailures
    /\ failures' = IF remote THEN failures + 1 ELSE failures
    /\ stats' = [counters EXCEPT !.errors = @ + 1]
    /\ outcome' = [ended |-> "raised", remote_failure |-> remote]
    /\ pc' = "idle"
    /\ idx' = Len(file_list) + 1

\* scan_directory's except clause: the exception of the current file is
\* counted and the loop goes on to the next file. counters is stats as the
\* call left it; remote tells a failed remote call from an error in the code
RaisedFrom(counters, remote) ==
    /\ remote => failures < MaxFailures
    /\ failures' = IF remote THEN failures + 1 ELSE failures
    /\ stats' = [counters EXCEPT !.errors = @ + 1]
    /\ outcome' = [ended |-> "raised", remote_failure |-> remote]
    /\ pc' = "idle"
    /\ idx' = idx + 1

Raised(remote) == RaisedFrom(stats, remote)

\* process_file returned: the loop goes on to the next file
ReturnedFrom(counters) ==
    /\ stats' = counters
    /\ outcome' = [ended |-> "returned", remote_failure |-> FALSE]
    /\ pc' = "idle"
    /\ idx' = idx + 1
    /\ UNCHANGED failures

\* main: the loop is over, print_summary
PrintSummary ==
    /\ phase = "scanning"
    /\ pc = "idle"
    /\ idx > Len(file_list)
    /\ phase' = "summary"
    /\ UNCHANGED <<store, stats, openai, dir, scans, calls, file_list, idx, pc, loc,
                   oplog, pre, outcome, failures>>

(* ------------------------------------------------------------ process_file *)

\* the loop calls process_file: count the file, hash it, look for an exact
\* duplicate (early return) and for a record of the same relative path
BeginProcessFile ==
    /\ phase = "scanning"
    /\ pc = "idle"
    /\ idx <= Len(file_list)
    /\ pre' = Snapshot
    /\ oplog' = <<>>
    /\ LET file_path == file_list[idx]
           content_hash == compute_content_hash(dir.files[file_path])
           entered == [NoLoc EXCEPT
                         !.file_path = file_path,
                         !.relative_path = PathStr(file_path),
                         !.content_hash = content_hash]
           counted == [stats EXCEPT !.scanned = @ + 1]
       IN  \/ \* check_duplicate or find_by_source_path raises
              /\ RaisedFrom(counted, TRUE)
              /\ loc' = entered
           \/ /\ check_duplicate(content_hash) # 0
              /\ ReturnedFrom([counted EXCEPT !.skipped_duplicate = @ + 1])
              /\ loc' = entered
           \/ /\ check_duplicate(content_hash) = 0
              /\ stats' = counted
              /\ outcome' = [ended |-> "running", remote_failure |-> FALSE]
              /\ loc' = [entered EXCEPT
                           !.existing = find_by_source_path(PathStr(file_path))]
              /\ pc' = "preview"
              /\ UNCHANGED <<failures, idx>>
    /\ UNCHANGED <<store, scanv>>

\* generate_preview: whether a format has a generator
CanGenerate(suffix) == StrLower(suffix) \in {<<".", "s", "v", "g">>, <<".", "d", "x", "f">>}

\* faulty variant of the preview step: the record found for the source path
\* is ignored and the file is ingested as a brand-new design
ResolvePreview_always(gen, ph) ==
    /\ pc = "preview"
    /\ IF dir.sibling
       THEN /\ gen = "failed"
            /\ loc' = [loc EXCEPT !.preview = "sibling", !.phash = ph]
            /\ UNCHANGED <<stats, oplog>>
       ELSE /\ CanGenerate(loc.file_path.suffix) \/ gen = "failed"
            /\ ph = IF gen = "ok" THEN 1 ELSE 0
            /\ loc' = [loc EXCEPT
                         !.temp_preview = TRUE,
                         !.temp_exists = (gen # "failed"),
                         !.preview = IF gen = "ok" THEN "temp" ELSE "none",
                         !.phash = ph]
            /\ stats' = [stats EXCEPT
                           !.previews_generated = IF gen = "ok" THEN @ + 1 ELSE @]
            /\ oplog' = Append(oplog, "generate_preview")
    /\ pc' = "get_metadata"
    /\ UNCHANGED <<store, scanv, idx, pre, outcome, failures>>

\* find or generate the preview, then the perceptual hash. gen is how the
\* generator ends: "ok", "failed" (no file written) or "partial" (the image
\* was written and the generator failed afterwards); ph is the perceptual
\* hash, 0 (None) when compute_phash cannot read the image. A generated
\* preview is a PNG the generator has just written with the same image
\* library, which compute_phash reads; a sibling image may be unreadable
ResolvePreview(gen, ph) ==
    /\ pc = "preview"
    /\ IF dir.sibling
       THEN /\ gen = "failed"
            /\ loc' = [loc EXCEPT !.preview = "sibling", !.phash = ph]
            /\ UNCHANGED <<stats, oplog>>
       ELSE /\ CanGenerate(loc.file_path.suffix) \/ gen = "failed"
            /\ ph = IF gen = "ok" THEN 1 ELSE 0
            /\ loc' = [loc EXCEPT
                         !.temp_preview = TRUE,
                         !.temp_exists = (gen # "failed"),
                         !.preview = IF gen = "ok" THEN "temp" ELSE "none",
                         !.phash = ph]
            /\ stats' = [stats EXCEPT
                           !.previews_generated = IF gen = "ok" THEN @ + 1 ELSE @]
            /\ oplog' = Append(oplog, "generate_preview")
    /\ pc' = IF loc.existing # 0 THEN "upload_version" ELSE "get_metadata"
    /\ UNCHANGED <<store, scanv, idx, pre, outcome, failures>>

\* faulty variant of the metadata step: the AI backend is asked whether or not
\* the file has a preview
GetMetadata_blind(r) ==
    /\ pc = "get_metadata"
    /\ IF openai
       THEN /\ loc' = [loc EXCEPT !.metadata = ParseAIResponse(r, loc.file_path)]
            /\ oplog' = Append(oplog, "ai_request")
       ELSE /\ loc' = [loc EXCEPT
                         !.metadata = _generate_basic_metadata(loc.file_path.stem)]
            /\ UNCHANGED oplog
    /\ pc' = "upload_preview"
    /\ UNCHANGED <<store, scanv, stats, idx, pre, outcome, failures>>

\* faulty variant of the metadata step: a failed AI request is issued again
GetMetadata_retry(r) ==
    /\ pc = "get_metadata"
    /\ IF loc.preview # "none" /\ openai
       THEN /\ loc' = [loc EXCEPT !.metadata = ParseAIResponse(r, loc.file_path)]
            /\ oplog' = Append(oplog, "ai_request")
            /\ pc' = IF r.kind = "request_error"
                     THEN "get_metadata" ELSE "upload_preview"
       ELSE /\ loc' = [loc EXCEPT
                         !.metadata = _generate_basic_metadata(loc.file_path.stem)]
            /\ pc' = "upload_preview"
            /\ UNCHANGED oplog
    /\ UNCHANGED <<store, scanv, stats, idx, pre, outcome, failures>>

\* brand-new design: the metadata, from the AI backend (answer r) when there is
\* a preview and the backend is configured, from the file name otherwise
GetMetadata(r) ==
    /\ pc = "get_metadata"
    /\ IF loc.preview # "none" /\ openai
       THEN /\ loc' = [loc EXCEPT !.metadata = ParseAIResponse(r, loc.file_path)]
            /\ oplog' = Append(oplog, "ai_request")
       ELSE /\ loc' = [loc EXCEPT
                         !.metadata = _generate_basic_metadata(loc.file_path.stem)]
            /\ UNCHANGED oplog
    /\ pc' = "upload_preview"
    /\ UNCHANGED <<store, scanv, stats, idx, pre, outcome, failures>>

\* brand-new design: upload the preview, if any
UploadPreview ==
    /\ pc = "upload_preview"
    /\ IF loc.preview = "none"
       THEN /\ pc' = "create_design"
            /\ UNCHANGED <<store, scanv, stats, idx, loc, oplog, pre, outcome, failures>>
       ELSE IF loc.metadata.title_none
       THEN \* slugify(None) raises AttributeError
            /\ Raised(FALSE)
            /\ UNCHANGED <<store, scanv, loc, oplog, pre>>
       ELSE \/ /\ Raised(TRUE)
               /\ UNCHANGED <<store, scanv, loc, oplog, pre>>
            \/ /\ storage' = Upsert("previews",
                                    PreviewKey(loc.metadata.title, loc.content_hash),
                                    PreviewBytes)
               /\ loc' = [loc EXCEPT !.preview_storage_path =
                            PreviewKey(loc.metadata.title, loc.content_hash)]
               /\ oplog' = Append(oplog, "upload_preview")
               /\ pc' = "create_design"
               /\ UNCHANGED <<designs, design_files, tags, design_tags, scanv,
                              stats, idx, pre, outcome, failures>>

\* the slugs of the designs table
Slugs == { designs[i].slug : i \in DesignIds }

\* where create_design goes after the insert or after a tag: the next tag of
\* the loop of _link_tags, or back in process_file
AfterTag(i) ==
    IF ~loc.metadata.tags_none /\ i > Len(loc.metadata.tags)
    THEN "upload_design" ELSE "link_tags"

\* the slug create_design gives a title when the clock reads t
UniqueSlug(title, t) ==
    IF slugify(title) \in Slugs
    THEN slugify(title) \o <<"-">> \o IntToStr(t)
    ELSE slugify(title)

\* create_design up to the insert into designs; the clock reads t
CreateDesign(t) ==
    /\ pc = "create_design"
    /\ IF loc.metadata.title_none
       THEN \* slugify(None) raises AttributeError
            /\ Raised(FALSE)
            /\ UNCHANGED <<store, scanv, loc, oplog, pre>>
       ELSE \/ \* the select or the insert raises
               /\ Raised(TRUE)
               /\ UNCHANGED <<store, scanv, loc, oplog, pre>>
            \/ /\ designs' = Append(designs,
                                    [slug |-> UniqueSlug(loc.metadata.title, t),
                                     metadata |-> loc.metadata,
                                     preview_path |-> loc.preview_storage_path,
                                     current_version_id |-> 0])
               /\ loc' = [loc EXCEPT
                            !.slug = UniqueSlug(loc.metadata.title, t),
                            !.design_id = Len(designs) + 1,
                            !.tag_i = 1]
               /\ oplog' = Append(oplog, "insert_design")
               /\ pc' = AfterTag(1)
               /\ UNCHANGED <<design_files, tags, design_tags, storage, scanv,
                              stats, idx, pre, outcome, failures>>

\* the id of the tag of this name, or 0
TagId(name) ==
    IF \E i \in 1..Len(tags) : tags[i] = name
    THEN CHOOSE i \in 1..Len(tags) : tags[i] = name
    ELSE 0

\* faulty variant of the tag normalisation: the name is not lower-cased
NormalizeTag_raw(tag_name) == StripChar(tag_name, " ")

\* tag_name.lower().strip()
NormalizeTag(tag_name) == StripChar(StrLower(tag_name), " ")

\* _link_tags: one turn of its loop; linked is whether the insert into
\* design_tags went through (its failure is ignored)
LinkTag(linked) ==
    /\ pc = "link_tags"
    /\ IF loc.metadata.tags_none
       THEN \* iterating over None raises TypeError
            /\ Raised(FALSE)
            /\ UNCHANGED <<store, scanv, loc, oplog, pre>>
       ELSE LET name == NormalizeTag(loc.metadata.tags[loc.tag_i])
                tag_id == IF TagId(name) # 0 THEN TagId(name) ELSE Len(tags) + 1
            IN  IF name = <<>>
                THEN /\ loc' = [loc EXCEPT !.tag_i = @ + 1]
                     /\ pc' = AfterTag(loc.tag_i + 1)
                     /\ UNCHANGED <<store, scanv, stats, idx, oplog, pre, outcome, failures>>
                ELSE \/ /\ Raised(TRUE)
                        /\ UNCHANGED <<store, scanv, loc, oplog, pre>>
                     \/ /\ tags' = IF TagId(name) # 0 THEN tags ELSE Append(tags, name)
                        /\ design_tags' =
                             IF linked
                             THEN design_tags \cup {<<loc.design_id, tag_id>>}
                             ELSE design_tags
                        /\ oplog' = oplog
                             \o (IF TagId(name) # 0 THEN <<>> ELSE <<"insert_tag">>)
                             \o (IF linked THEN <<"insert_link">> ELSE <<>>)
                        /\ loc' = [loc EXCEPT !.tag_i = @ + 1]
                        /\ pc' = AfterTag(loc.tag_i + 1)
                        /\ UNCHANGED <<designs, design_files, storage, scanv,
                                       stats, idx, pre, outcome, failures>>

\* upload_file of the design file to the bucket "designs"
UploadTo(design_id, version_number) ==
    \/ /\ Raised(TRUE)
       /\ UNCHANGED <<store, scanv, loc, oplog, pre>>
    \/ /\ storage' = Upsert("designs",
                            FilesKey(design_id, version_number, loc.file_path.suffix),
                            dir.files[loc.file_path])
       /\ loc' = [loc EXCEPT
                    !.design_id = design_id,
                    !.version_number = version_number,
                    !.storage_path =
                        FilesKey(design_id, version_number, loc.file_path.suffix)]
       /\ oplog' = Append(oplog, "upload_file")
       /\ pc' = "create_design_file"
       /\ UNCHANGED <<designs, design_files, tags, design_tags, scanv, stats,
                      idx, pre, outcome, failures>>

\* faulty variants of the next version number: the number of the record
\* found, and a number that leaves a gap
NextVersion_same(existing) == design_files[existing].version_number

NextVersion_skip(existing) == design_files[existing].version_number + 2

\* the version the new-version branch gives the file
NextVersion(existing) == design_files[existing].version_number + 1

\* new version: the design and version number of the record found, the upload
UploadNewVersion ==
    /\ pc = "upload_version"
    /\ UploadTo(design_files[loc.existing].design_id, NextVersion(loc.existing))

\* brand-new design: the upload of version 1
UploadNewDesign ==
    /\ pc = "upload_design"
    /\ UploadTo(loc.design_id, 1)

\* file_path.suffix.lower().lstrip(".")
FileType(suffix) == LStripChar(StrLower(suffix), ".")

\* DesignIngester.create_design_file
CreateDesignFile ==
    /\ pc = "create_design_file"
    /\ \/ /\ Raised(TRUE)
          /\ UNCHANGED <<store, scanv, loc, oplog, pre>>
       \/ /\ design_files' = Append(design_files,
                [design_id |-> loc.design_id,
                 storage_path |-> loc.storage_path,
                 file_type |-> FileType(loc.file_path.suffix),
                 content_hash |-> loc.content_hash,
                 preview_phash |-> loc.phash,
                 source_path |-> loc.relative_path,
                 version_number |-> loc.version_number,
                 is_active |-> TRUE])
          /\ loc' = [loc EXCEPT !.file_id = Len(design_files) + 1]
          /\ oplog' = Append(oplog, "insert_design_file")
          /\ pc' = "deactivate"
          /\ UNCHANGED <<designs, tags, design_tags, storage, scanv, stats, idx,
                         pre, outcome, failures>>

\* update_current_version, first update: the other records of the design
DeactivateOld ==
    /\ pc = "deactivate"
    /\ \/ /\ Raised(TRUE)
          /\ UNCHANGED <<store, scanv, loc, oplog, pre>>
       \/ /\ design_files' =
                [i \in FileIds |->
                    IF design_files[i].design_id = loc.design_id /\ i # loc.file_id
                    THEN [design_files[i] EXCEPT !.is_active = FALSE]
                    ELSE design_files[i]]
          /\ oplog' = Append(oplog, "deactivate")
          /\ pc' = "set_current"
          /\ UNCHANGED <<designs, tags, design_tags, storage, scanv, stats, idx,
                         loc, pre, outcome, failures>>

\* faulty variant of the end of process_file: a new version is not counted
Finish_uncounted ==
    /\ ReturnedFrom(IF loc.existing # 0
                    THEN stats
                    ELSE [stats EXCEPT !.new_designs = @ + 1])
    /\ loc' = [loc EXCEPT !.temp_exists = FALSE]

\* the end of process_file: the counter of the branch, the removal of the
\* temporary preview
Finish ==
    /\ ReturnedFrom(IF loc.existing # 0
                    THEN [stats EXCEPT !.new_versions = @ + 1]
                    ELSE [stats EXCEPT !.new_designs = @ + 1])
    /\ loc' = [loc EXCEPT !.temp_exists = FALSE]

\* update_current_version, second update: the pointer of the design; then
\* the end of process_file
SetCurrentVersion ==
    /\ pc = "set_current"
    /\ \/ /\ Raised(TRUE)
          /\ UNCHANGED <<store, scanv, loc, oplog, pre>>
       \/ /\ designs' = [designs EXCEPT
                           ![loc.design_id].current_version_id = loc.file_id]
          /\ oplog' = Append(oplog, "set_current")
          /\ Finish
          /\ UNCHANGED <<design_files, tags, design_tags, storage, scanv, pre>>

(* --------------------------------------------------------- specifications *)

ProcessStep ==
    \/ BeginProcessFile
    \/ \E gen \in {"ok", "failed", "partial"}, ph \in {0, 1} : ResolvePreview(gen, ph)
    \/ \E r \in AIResponses : GetMetadata(r)
    \/ UploadPreview
    \/ \E t \in 1..MaxClock : CreateDesign(t)
    \/ \E linked \in BOOLEAN : LinkTag(linked)
    \/ UploadNewVersion
    \/ UploadNewDesign
    \/ CreateDesignFile
    \/ DeactivateOld
    \/ SetCurrentVersion
    \/ PrintSummary

Next ==
    \/ \E d \in Directories, ai \in BOOLEAN : StartScan(d, ai)
    \/ ProcessStep

Spec == Init /\ [][Next]_vars

\* a started scan runs on: the program is sequential and no step of it waits
FairSpec == Spec /\ WF_vars(ProcessStep)

\* The ingester without AI backend, on directories without sibling previews:
\* every title then comes from the file name and no design has tags, so
\* _link_tags has nothing to do
PlainDirectories == { d \in Directories : ~d.sibling }

PlainStep ==
    \/ BeginProcessFile
    \/ \E gen \in {"ok", "failed", "partial"}, ph \in {0, 1} : ResolvePreview(gen, ph)
    \/ \E r \in AIResponses : GetMetadata(r)
    \/ UploadPreview
    \/ \E t \in 1..MaxClock : CreateDesign(t)
    \/ UploadNewVersion
    \/ UploadNewDesign
    \/ CreateDesignFile
    \/ DeactivateOld
    \/ SetCurrentVersion
    \/ PrintSummary

PlainNext ==
    \/ \E d \in PlainDirectories : StartScanUpTo(d, FALSE, MaxScans, MaxCalls)
    \/ PlainStep

PlainSpec == Init /\ [][PlainNext]_vars

\* the same with longer runs: MaxDeepCalls calls of process_file
MaxDeepCalls == 3

DeepNext ==
    \/ \E d \in PlainDirectories : StartScanUpTo(d, FALSE, MaxScans, MaxDeepCalls)
    \/ PlainStep

DeepSpec == Init /\ [][DeepNext]_vars

\* The same ingester on directories whose file names differ in letter case
CaseNext ==
    \/ \E d \in CaseDirectories : StartScanUpTo(d, FALSE, MaxScans, MaxCalls)
    \/ PlainStep

CaseSpec == Init /\ [][CaseNext]_vars

(* ------------------------------------------------------------------ claims *)

\* the last call of process_file has ended
CallEnded == pc = "idle" /\ outcome.ended \in {"returned", "raised"}

PreFileIds == 1..Len(pre.design_files)

\* the store held a record of the file's content hash / of its relative path
\* when the call began
HashRecorded ==
    \E i \in PreFileIds : pre.design_files[i].content_hash = loc.content_hash
PathRecorded ==
    \E i \in PreFileIds : pre.design_files[i].source_path = loc.relative_path

StoreUnchanged ==
    /\ designs = pre.designs
    /\ design_files = pre.design_files
    /\ tags = pre.tags
    /\ design_tags = pre.design_tags
    /\ storage = pre.storage

\* the records of design d
FilesOf(d) == { i \in FileIds : design_files[i].design_id = d }

\* the records the call found in design_files are still there; same_flags
\* tells whether their is_active must be unchanged too
PreFilesKept(same_flags) ==
    /\ Len(design_files) >= Len(pre.design_files)
    /\ \A i \in PreFileIds :
          IF same_flags
          THEN design_files[i] = pre.design_files[i]
          ELSE design_files[i] =
                 [pre.design_files[i] EXCEPT !.is_active = design_files[i].is_active]

\* the position of the first op in the log of the call, 0 when absent
FirstOp(op) ==
    IF \E k \in 1..Len(oplog) : oplog[k] = op
    THEN CHOOSE k \in 1..Len(oplog) :
            oplog[k] = op /\ \A m \in 1..(k - 1) : oplog[m] # op
    ELSE 0

\* C1 as stated: a call on a file whose content hash is already recorded
\* writes nothing to the remote store, uploads nothing, generates no preview,
\* issues no AI request and increments skipped_duplicate by exactly one.
C1_AsStated ==
    (CallEnded /\ HashRecorded) =>
        /\ StoreUnchanged
        /\ oplog = <<>>
        /\ stats.skipped_duplicate = pre.stats.skipped_duplicate + 1

\* C1 amended: a call on a file whose content hash is already recorded writes
\* nothing to the remote store, uploads nothing, generates no preview and
\* issues no AI request; when its duplicate-check query does not fail it
\* returns and increments skipped_duplicate by exactly one (and no other
\* counter but scanned); when the query fails the call raises and the file is
\* counted in errors, not in skipped_duplicate.
C1_DuplicateSkipped ==
    (CallEnded /\ HashRecorded) =>
        /\ StoreUnchanged
        /\ oplog = <<>>
        /\ IF outcome.remote_failure
           THEN /\ outcome.ended = "raised"
                /\ stats = [pre.stats EXCEPT !.scanned = @ + 1, !.errors = @ + 1]
           ELSE /\ outcome.ended = "returned"
                /\ stats = [pre.stats EXCEPT !.scanned = @ + 1,
                                             !.skipped_duplicate = @ + 1]

\* an unchanged, already ingested file was scanned again and skipped
C1_Witness ==
    /\ CallEnded /\ outcome.ended = "returned"
    /\ \E i \in PreFileIds :
          /\ pre.design_files[i].content_hash = loc.content_hash
          /\ pre.design_files[i].source_path = loc.relative_path

\* the highest version number recorded for the file's relative path when the
\* call began
PreMaxVersion ==
    LET hits == { i \in PreFileIds :
                    pre.design_files[i].source_path = loc.relative_path }
    IN  CHOOSE v \in { pre.design_files[i].version_number : i \in hits } :
            \A i \in hits : pre.design_files[i].version_number <= v

\* C2: a call on a file whose content hash is not recorded and whose relative
\* path is, with every remote call succeeding, creates no design and exactly
\* one design_files record, under the design of the matched record, with the
\* highest version number recorded for the path plus 1; it points the design's
\* current_version_id to it and increments new_versions by exactly one.
C2_NewVersion ==
    (CallEnded /\ ~HashRecorded /\ PathRecorded /\ ~outcome.remote_failure) =>
        /\ outcome.ended = "returned"
        /\ designs = [i \in 1..Len(pre.designs) |->
                        [pre.designs[i] EXCEPT
                            !.current_version_id = designs[i].current_version_id]]
        /\ Len(design_files) = Len(pre.design_files) + 1
        /\ PreFilesKept(FALSE)
        /\ LET new == design_files[Len(design_files)]
           IN  /\ \A i \in PreFileIds :
                     pre.design_files[i].source_path = loc.relative_path
                        => new.design_id = pre.design_files[i].design_id
               /\ new.version_number = PreMaxVersion + 1
               /\ new.content_hash = loc.content_hash
               /\ designs[new.design_id].current_version_id = Len(design_files)
        /\ stats.new_versions = pre.stats.new_versions + 1
        /\ stats.new_designs = pre.stats.new_designs

\* a changed file was scanned under a recorded path and the call returned
C2_Witness ==
    /\ CallEnded /\ outcome.ended = "returned"
    /\ ~HashRecorded /\ PathRecorded

\* C3 as stated: whenever no call of process_file is in progress, every design
\* that has a design_files record has exactly one with is_active = true.
C3_ExactlyOneActive ==
    pc = "idle" =>
        \A d \in DesignIds :
            FilesOf(d) # {} =>
                Cardinality({ i \in FilesOf(d) : design_files[i].is_active }) = 1

\* C4: in every reachable store state the version numbers of the records of
\* one design are exactly 1..n, n the number of its records: no gap, no
\* repeated number.
C4_VersionsContiguous ==
    \A d \in DesignIds :
        /\ { design_files[i].version_number : i \in FilesOf(d) }
              = 1..Cardinality(FilesOf(d))
        /\ \A i, j \in FilesOf(d) :
              design_files[i].version_number = design_files[j].version_number
                 => i = j

\* a design has two versions
C4_Witness ==
    \E d \in DesignIds : Cardinality(FilesOf(d)) = 2

\* C5: in every reachable store state no two design_files records have the
\* same content_hash.
C5_HashesDistinct ==
    \A i, j \in FileIds :
        design_files[i].content_hash = design_files[j].content_hash => i = j

\* a file with the bytes of a record of another path was scanned and skipped
C5_Witness ==
    /\ CallEnded /\ outcome.ended = "returned" /\ StoreUnchanged
    /\ \E i \in FileIds :
          /\ design_files[i].content_hash = loc.content_hash
          /\ design_files[i].source_path # loc.relative_path

\* C6 as stated: whenever no call of process_file is in progress, a design's
\* current_version_id, when set, references a record of that design which is
\* active and has the design's highest version number.
C6_PointerNewestActive ==
    pc = "idle" =>
        \A d \in DesignIds :
            designs[d].current_version_id # 0 =>
                LET cur == designs[d].current_version_id
                IN  /\ cur \in FilesOf(d)
                    /\ design_files[cur].is_active
                    /\ \A i \in FilesOf(d) :
                          design_files[i].version_number
                             <= design_files[cur].version_number

\* C7 as stated: once a call of process_file has ended, returned or raised,
\* the temporary preview file it created no longer exists.
C7_TempPreviewRemoved ==
    CallEnded => ~loc.temp_exists

\* C8: an exception in process_file increments errors by exactly one and
\* leaves the other counters as the call set them; the scan goes on: when the
\* summary is reached every file of the sorted list was handed to
\* process_file, and every started scan reaches the summary.
C8_ScanSurvivesErrors ==
    /\ [](CallEnded /\ outcome.ended = "raised" =>
            /\ stats.errors = pre.stats.errors + 1
            /\ stats.scanned = pre.stats.scanned + 1)
    /\ [](phase = "summary" =>
            /\ idx = Len(file_list) + 1
            /\ stats.scanned = Len(file_list))
    /\ ((phase = "scanning") ~> (phase = "summary"))

\* the summary of a scan of two files whose first file raised and whose second
\* file was ingested
C8_Witness ==
    /\ phase = "summary"
    /\ Len(file_list) = 2
    /\ stats.errors = 1
    /\ outcome.ended = "returned"

\* C9 as stated: a call on a file whose content hash and relative path are
\* both unrecorded, with every remote call succeeding, creates exactly one
\* design and one design_files record under it, version 1 and active, uploads
\* the file before inserting the record, points current_version_id to it,
\* deactivates no record and increments new_designs by exactly one.
C9_NewDesign ==
    (CallEnded /\ ~HashRecorded /\ ~PathRecorded /\ ~outcome.remote_failure) =>
        /\ outcome.ended = "returned"
        /\ Len(designs) = Len(pre.designs) + 1
        /\ Len(design_files) = Len(pre.design_files) + 1
        /\ PreFilesKept(TRUE)
        /\ LET new == design_files[Len(design_files)]
           IN  /\ new.design_id = Len(designs)
               /\ new.version_number = 1
               /\ new.is_active
               /\ designs[Len(designs)].current_version_id = Len(design_files)
        /\ FirstOp("upload_file") # 0
        /\ FirstOp("upload_file") < FirstOp("insert_design_file")
        /\ stats.new_designs = pre.stats.new_designs + 1

\* C10 as stated: in every reachable store state no two designs have the same
\* slug.
C10_SlugsDistinct ==
    \A i, j \in DesignIds : designs[i].slug = designs[j].slug => i = j

\* how many times op is in the log of the call
OpCount(op) == Cardinality({ k \in 1..Len(oplog) : oplog[k] = op })

\* C11: in every state the current call of process_file has issued at most
\* one AI request, and it has issued one only on the brand-new-design branch:
\* the file's content hash and relative path were both unrecorded, the backend
\* is configured and the file has a preview.
C11_AIRequestOnce ==
    /\ OpCount("ai_request") <= 1
    /\ OpCount("ai_request") = 1 =>
          /\ ~HashRecorded /\ ~PathRecorded
          /\ loc.existing = 0
          /\ openai /\ loc.preview # "none"

\* a call whose AI request failed (the metadata is the one derived from the
\* file name) has ended
C11_Witness ==
    /\ CallEnded
    /\ OpCount("ai_request") = 1
    /\ loc.metadata = _generate_basic_metadata(loc.file_path.stem)

\* the metadata of a well-formed AI answer
WellFormedAnswer == Metadata(FALSE, AITitle, FALSE, AITags)

\* C12 as stated: a call on the brand-new-design branch whose AI request
\* failed or was answered with a malformed response, and whose remote store
\* calls all succeeded, returns with the design created and the file counted
\* in new_designs, not in errors.
C12_MalformedFallsBack ==
    (/\ CallEnded
     /\ OpCount("ai_request") = 1
     /\ loc.metadata # WellFormedAnswer
     /\ ~outcome.remote_failure) =>
        /\ outcome.ended = "returned"
        /\ Len(designs) = Len(pre.designs) + 1
        /\ stats.new_designs = pre.stats.new_designs + 1
        /\ stats.errors = pre.stats.errors

\* scan_directory looks for this path
Supported(p) == StrLower(p.suffix) \in SUPPORTED_EXTENSIONS

\* C13 as stated: the list a scan hands to process_file holds every file of
\* the directory with a supported extension, in any letter case, exactly
\* once, and nothing else; at the summary each was processed.
C13_EveryFileOnce ==
    phase \in {"scanning", "summary"} =>
        /\ \A p \in DOMAIN dir.files :
              Supported(p) =>
                  Cardinality({ k \in 1..Len(file_list) : file_list[k] = p }) = 1
        /\ \A k \in 1..Len(file_list) :
              file_list[k] \in DOMAIN dir.files /\ Supported(file_list[k])
        /\ phase = "summary" => stats.scanned = Len(file_list)

\* the objects of the bucket "previews"
PreviewObjects(objects) == { o \in objects : o.bucket = "previews" }

\* C14: a call on the new-version branch changes, on the design that owns
\* the matched record, nothing but current_version_id, and changes no other
\* design; it creates no design and no tag, links no tag, uploads no preview
\* and extracts no metadata (no AI request, no metadata derived).
C14_VersionLeavesDesign ==
    loc.existing # 0 =>
        /\ Len(designs) = Len(pre.designs)
        /\ \A d \in DesignIds :
              IF d = pre.design_files[loc.existing].design_id
              THEN designs[d] = [pre.designs[d] EXCEPT
                                   !.current_version_id = designs[d].current_version_id]
              ELSE designs[d] = pre.designs[d]
        /\ tags = pre.tags
        /\ design_tags = pre.design_tags
        /\ PreviewObjects(storage) = PreviewObjects(pre.storage)
        /\ OpCount("upload_preview") = 0
        /\ OpCount("ai_request") = 0
        /\ loc.metadata = NoMetadata

\* a new version was ingested and the pointer of its design moved
C14_Witness ==
    /\ CallEnded /\ outcome.ended = "returned"
    /\ loc.existing # 0
    /\ \E d \in DesignIds :
          designs[d].current_version_id # pre.designs[d].current_version_id

\* the names the tag strings of the call's metadata normalise to
CallTagNames ==
    IF loc.metadata.tags_none THEN {}
    ELSE { NormalizeTag(loc.metadata.tags[k]) : k \in 1..Len(loc.metadata.tags) }
            \ {<<>>}

\* C15: in every reachable state no two tags have the same name and every
\* tag name is non-empty, lower-cased and trimmed; every link references a
\* design and a tag of the store; a call that returned has a tag record for
\* every name its tag strings normalise to, and the links it added go from
\* its design to exactly those records; a rejected link insert does not make
\* the call fail.
C15_TagsNormalised ==
    /\ \A i, j \in 1..Len(tags) : tags[i] = tags[j] => i = j
    /\ \A i \in 1..Len(tags) :
          /\ tags[i] # <<>>
          /\ tags[i] = StrLower(tags[i])
          /\ tags[i] = StripChar(tags[i], " ")
    /\ \A l \in design_tags : l[1] \in DesignIds /\ l[2] \in 1..Len(tags)
    /\ (CallEnded /\ outcome.ended = "returned" /\ loc.design_id # 0) =>
          /\ \A n \in CallTagNames : TagId(n) # 0
          /\ \A l \in design_tags \ pre.design_tags :
                l[1] = loc.design_id /\ tags[l[2]] \in CallTagNames
    /\ (/\ CallEnded /\ loc.existing = 0 /\ ~outcome.remote_failure
        /\ ~loc.metadata.title_none /\ ~loc.metadata.tags_none) =>
          outcome.ended = "returned"

\* two designs are linked to one tag record, the only one of the store, and
\* the tag strings of the last design named it twice
C15_Witness ==
    /\ CallEnded /\ outcome.ended = "returned"
    /\ Len(tags) = 1
    /\ Len(loc.metadata.tags) = 2
    /\ \E d1, d2 \in DesignIds :
          d1 # d2 /\ <<d1, 1>> \in design_tags /\ <<d2, 1>> \in design_tags

\* the call found no sibling preview and its generator produced none
NoPreview == loc.temp_preview /\ loc.preview = "none"

\* what C16 promises of a call that ended without a preview
IngestedWithoutPreview ==
    /\ outcome.ended = "returned"
    /\ stats.errors = pre.stats.errors
    /\ OpCount("upload_preview") = 0
    /\ OpCount("ai_request") = 0
    /\ PreviewObjects(storage) = PreviewObjects(pre.storage)
    /\ Len(design_files) = Len(pre.design_files) + 1
    /\ design_files[Len(design_files)].preview_phash = 0
    /\ IF loc.existing = 0
       THEN /\ Len(designs) = Len(pre.designs) + 1
            /\ designs[Len(designs)].preview_path = <<>>
            /\ stats.new_designs = pre.stats.new_designs + 1
            /\ stats.new_versions = pre.stats.new_versions
       ELSE /\ Len(designs) = Len(pre.designs)
            /\ stats.new_versions = pre.stats.new_versions + 1
            /\ stats.new_designs = pre.stats.new_designs

\* C16 as stated: a call on a file without sibling preview whose preview
\* generation failed or is not implemented returns: the design is created
\* with an empty preview reference, no preview upload, no AI request and no
\* perceptual hash, and the file is counted in new_designs (new_versions on
\* the version branch), not in errors.
C16_AsStated ==
    (CallEnded /\ NoPreview) => IngestedWithoutPreview

\* C16 amended: the same of the calls all of whose remote calls succeeded.
C16_NoPreviewIngested ==
    (CallEnded /\ NoPreview /\ ~outcome.remote_failure) => IngestedWithoutPreview

\* a new design was ingested without preview although the AI backend is
\* configured
C16_Witness ==
    /\ CallEnded /\ NoPreview /\ outcome.ended = "returned"
    /\ loc.existing = 0
    /\ openai

\* the files counted in one of the four outcome counters
Outcomes(counters) ==
    counters.skipped_duplicate + counters.new_designs + counters.new_versions
        + counters.errors

\* C17: between two calls of process_file and at the summary, scanned equals
\* skipped_duplicate + new_designs + new_versions + errors, and every call
\* that ended added exactly one to that sum; at the summary scanned equals
\* the length of the deduplicated list.
C17_CountersAddUp ==
    /\ (phase \in {"scanning", "summary"} /\ pc = "idle") =>
          stats.scanned = Outcomes(stats)
    /\ CallEnded =>
          /\ stats.scanned = pre.stats.scanned + 1
          /\ Outcomes(stats) = Outcomes(pre.stats) + 1
          /\ stats.skipped_duplicate >= pre.stats.skipped_duplicate
          /\ stats.new_designs >= pre.stats.new_designs
          /\ stats.new_versions >= pre.stats.new_versions
          /\ stats.errors >= pre.stats.errors
    /\ phase = "summary" => stats.scanned = Len(file_list)

\* the summary of a scan that counted one new design and then one error
C17_Witness ==
    /\ phase = "summary"
    /\ stats.new_designs = 1
    /\ stats.errors = 1
    /\ outcome.ended = "raised"

\* C18 as stated: once a call of process_file has ended, returned or raised,
\* every design of the store has at least one design_files record and a
\* current_version_id that is set.
C18_NoOrphanDesign ==
    CallEnded =>
        \A d \in DesignIds :
            FilesOf(d) # {} /\ designs[d].current_version_id # 0

\* C19: in every reachable store state the records of one source path belong
\* to one design and the records of one design have one source path.
C19_PathOwnsDesign ==
    \A i, j \in FileIds :
        design_files[i].source_path = design_files[j].source_path
            <=> design_files[i].design_id = design_files[j].design_id

\* a second record of a recorded source path was inserted, under the design
\* of the first
C19_Witness ==
    \E i, j \in FileIds :
        /\ i # j
        /\ design_files[i].source_path = design_files[j].source_path
        /\ design_files[i].design_id = design_files[j].design_id
        /\ design_files[i].content_hash # design_files[j].content_hash

\* the step uploaded the design file
Uploads ==
    /\ Len(oplog') = Len(oplog) + 1
    /\ oplog'[Len(oplog')] = "upload_file"

\* C20: in every reachable state the storage_path of every design_files
\* record holds the bytes whose hash is the record's content_hash; a call
\* inserts its record only after its upload of the file succeeded; and no
\* upload targets the storage_path of a record that exists.
C20_StorageHoldsRecord ==
    /\ [](\A i \in FileIds :
            \E o \in storage :
                /\ o.bucket = "designs"
                /\ o.key = design_files[i].storage_path
                /\ compute_content_hash(o.data) = design_files[i].content_hash)
    /\ [](FirstOp("insert_design_file") # 0 =>
            /\ FirstOp("upload_file") # 0
            /\ FirstOp("upload_file") < FirstOp("insert_design_file"))
    /\ [][Uploads =>
            \A i \in FileIds : design_files[i].storage_path # loc'.storage_path]_vars

\* a design has two records and the storage holds the bytes of both
C20_Witness ==
    /\ CallEnded /\ outcome.ended = "returned"
    /\ \E i, j \in FileIds :
          /\ i # j
          /\ design_files[i].design_id = design_files[j].design_id
          /\ \E o1, o2 \in storage :
                /\ o1.key = design_files[i].storage_path
                /\ o2.key = design_files[j].storage_path
                /\ o1.data # o2.data

====
